---- MODULE Spec2Model ----
(***************************************************************************)
(* obfuse-rs: the build-time encoder (obfuse-macros/src/encrypt.rs), the   *)
(* cipher backends (obfuse-core/src/{aes,chacha,xor}.rs) and the runtime   *)
(* value ObfuseStr (obfuse-core/src/obfuse_str.rs) with its OnceLock       *)
(* cache, accessed by several threads.                                     *)
(*                                                                         *)
(* Bytes are integers 0..255 and byte strings are sequences of them.      *)
(* The AEAD primitives of the aes_gcm and chacha20poly1305 crates and the  *)
(* generator of rand_chacha are outside the repository; they are modelled *)
(* by small concrete functions with the same interface (a keystream, a     *)
(* polynomial tag over a prime field, a seeded byte stream).               *)
(***************************************************************************)
EXTENDS Integers, Sequences, FiniteSets, TLC

(* ------------------------------------------------------------------ *)
(* Bounds of the model                                                 *)
(* ------------------------------------------------------------------ *)

\* number of threads sharing one ObfuseStr
NumThreads == 4

\* the counter of backend decrypt executions saturates here
MaxDecrypts == NumThreads + 1

\* the counter of successful OnceLock::set calls saturates here
MaxSets == 2

\* the counter of consecutive manual zeroize calls saturates here
MaxScrubRun == 2

(* ------------------------------------------------------------------ *)
(* Bytes                                                               *)
(* ------------------------------------------------------------------ *)

RECURSIVE BitXor(_, _)
\* u8 ^ u8
BitXor(a, b) ==
    IF a = 0 THEN b
    ELSE IF b = 0 THEN a
    ELSE (((a % 2) + (b % 2)) % 2) + 2 * BitXor(a \div 2, b \div 2)

\* u8::wrapping_add
WrappingAdd(a, b) == (a + b) % 256

\* u8::wrapping_mul
WrappingMul(a, b) == (a * b) % 256

Pow2(n) == CASE n = 0 -> 1 [] n = 1 -> 2 [] n = 2 -> 4 [] n = 3 -> 8
             [] n = 4 -> 16 [] n = 5 -> 32 [] n = 6 -> 64 [] OTHER -> 128

\* a byte string given by its elements, as a sequence value
ToBytes(f) == SubSeq(f, 1, Len(f))

\* [0u8; n]
Zeros(n) == ToBytes([i \in 1..n |-> 0])

AllZero(s) == \A i \in 1..Len(s) : s[i] = 0

(* ------------------------------------------------------------------ *)
(* Option and Result values                                            *)
(* ------------------------------------------------------------------ *)

None == [some |-> FALSE, val |-> <<>>]
Some(v) == [some |-> TRUE, val |-> v]

Ok(v) == [kind |-> "Ok", val |-> v, err |-> "none", at |-> 0]
Err(e) == [kind |-> "Err", val |-> <<>>, err |-> e, at |-> 0]
\* ObfuseError::InvalidUtf8(Utf8Error): the error carries valid_up_to
ErrUtf8(n) == [kind |-> "Err", val |-> <<>>, err |-> "InvalidUtf8", at |-> n]
Panic(m) == [kind |-> "Panic", val |-> <<>>, err |-> m, at |-> 0]
NoRet == [kind |-> "none", val |-> <<>>, err |-> "none", at |-> 0]
\* nothing observed yet: no is_decrypted() and no Debug formatting was run
NotObserved == [op |-> "none", ret |-> FALSE, out |-> <<>>]

(* ------------------------------------------------------------------ *)
(* Backends: KEY_SIZE and NONCE_SIZE                                   *)
(* ------------------------------------------------------------------ *)

Backends == {"aes-256-gcm", "aes-128-gcm", "chacha20-poly1305", "xor"}
AeadBackends == {"aes-256-gcm", "aes-128-gcm", "chacha20-poly1305"}

\* KEY_SIZE of the runtime backend (obfuse-core)
KEY_SIZE(b) ==
    CASE b = "aes-256-gcm" -> 32
      [] b = "aes-128-gcm" -> 16
      [] b = "chacha20-poly1305" -> 32
      [] OTHER -> 32

\* NONCE_SIZE of the runtime backend (obfuse-core)
NONCE_SIZE(b) == 12

\* KEY_SIZE of the build-time encoder (obfuse-macros)
ENC_KEY_SIZE(b) ==
    CASE b = "aes-256-gcm" -> 32
      [] b = "aes-128-gcm" -> 16
      [] b = "chacha20-poly1305" -> 32
      [] OTHER -> 32

\* NONCE_SIZE of the build-time encoder (obfuse-macros)
ENC_NONCE_SIZE(b) == 12

(* ------------------------------------------------------------------ *)
(* The AEAD primitive behind Aes256Gcm / Aes128Gcm / ChaCha20Poly1305  *)
(* ------------------------------------------------------------------ *)

\* length of the authentication tag the AEAD appends
TAG_SIZE == 16

\* key length the cipher type accepts in new_from_slice
CipherKeyLen(b) == CASE b = "aes-128-gcm" -> 16 [] OTHER -> 32

\* nonce length Nonce::from_slice accepts
CipherNonceLen == 12

\* a constant separating the three primitives
CipherId(b) ==
    CASE b = "aes-256-gcm" -> 1 [] b = "aes-128-gcm" -> 2
      [] b = "chacha20-poly1305" -> 3 [] OTHER -> 4

\* byte i (1-based) of the keystream under (k, n)
KeyStream(b, k, n, i) ==
    (k[((i - 1) % Len(k)) + 1] + n[((i - 1) % Len(n)) + 1] + 7 * i + CipherId(b)) % 256

ApplyKeyStream(b, k, n, data) ==
    ToBytes([i \in 1..Len(data) |-> BitXor(data[i], KeyStream(b, k, n, i))])

\* one Horner step of the tag polynomial, over the prime field of 65521 elements
PolyStep(h, byte) == (h * 257 + byte + 1) % 65521

RECURSIVE PolyFold(_, _, _, _)
\* Horner evaluation over data[lo..hi] (1-based, inclusive) from accumulator h.
\* The range is split in halves; the split point and the value of the left half
\* are bound before the right half is evaluated, which keeps the evaluation
\* depth logarithmic and evaluates each half once.
PolyFold(data, lo, hi, h) ==
    IF hi < lo THEN h
    ELSE IF hi = lo THEN PolyStep(h, data[lo])
    ELSE CHOOSE r \in
            {PolyFold(data, x.mid + 1, x.hi, x.left) :
                x \in {[mid |-> m, hi |-> hi, left |-> PolyFold(data, lo, m, h)] :
                          m \in {(lo + hi) \div 2}}} : TRUE

\* the tag over key, nonce and the encrypted body
AeadTag(b, k, n, body) ==
    CHOOSE tag \in
        {ToBytes([j \in 1..TAG_SIZE |->
                IF j = 1 THEN h % 256
                ELSE IF j = 2 THEN h \div 256
                ELSE ((h \div 256) + (h % 256) * j + j) % 256]) :
            h \in {PolyFold(data, 1, Len(data), 1) :
                      data \in {<<CipherId(b)>> \o k \o n \o <<Len(body)>> \o body}}} : TRUE

\* Aead::encrypt: body followed by the tag
AeadSeal(b, k, n, pt) ==
    LET body == ApplyKeyStream(b, k, n, pt)
    IN  body \o AeadTag(b, k, n, body)

\* Aead::decrypt: Ok(plaintext) when the tag verifies, else Err(aead::Error)
AeadOpen(b, k, n, ct) ==
    IF Len(ct) < TAG_SIZE THEN Err("aead::Error")
    ELSE LET body == SubSeq(ct, 1, Len(ct) - TAG_SIZE)
             tag == SubSeq(ct, Len(ct) - TAG_SIZE + 1, Len(ct))
         IN  IF tag = AeadTag(b, k, n, body)
             THEN Ok(ApplyKeyStream(b, k, n, body))
             ELSE Err("aead::Error")

(* ------------------------------------------------------------------ *)
(* Runtime backends: decrypt                                           *)
(* ------------------------------------------------------------------ *)

\* aead_decrypt with the error replaced by a default value (unwrap_or_default)
aead_decrypt_lenient(b, ciphertext, k, n) ==
    IF Len(k) # CipherKeyLen(b) THEN Err("AuthenticationFailed")
    ELSE IF Len(n) # CipherNonceLen THEN Panic("Nonce::from_slice")
    ELSE LET r == AeadOpen(b, k, n, ciphertext)
         IN  IF r.kind = "Ok" THEN Ok(r.val) ELSE Ok(<<>>)

\* aes::aes256::decrypt, aes::aes128::decrypt, chacha::decrypt
aead_decrypt(b, ciphertext, k, n) ==
    IF Len(k) # CipherKeyLen(b) THEN Err("AuthenticationFailed")
    ELSE IF Len(n) # CipherNonceLen THEN Panic("Nonce::from_slice")
    ELSE LET r == AeadOpen(b, k, n, ciphertext)
         IN  IF r.kind = "Ok" THEN Ok(r.val) ELSE Err("AuthenticationFailed")

\* xor_decrypt with the key index off by one
xor_decrypt_shifted(ciphertext, k, n) ==
    Ok(ToBytes([i \in 1..Len(ciphertext) |->
            BitXor(ciphertext[i], k[(i % KEY_SIZE("xor")) + 1])]))

\* xor_decrypt that also folds the nonce into the key stream
xor_decrypt_nonce_mixed(ciphertext, k, n) ==
    Ok(ToBytes([i \in 1..Len(ciphertext) |->
            BitXor(BitXor(ciphertext[i], k[((i - 1) % KEY_SIZE("xor")) + 1]),
                   n[((i - 1) % NONCE_SIZE("xor")) + 1])]))

\* xor::decrypt
xor_decrypt(ciphertext, k, n) ==
    Ok(ToBytes([i \in 1..Len(ciphertext) |->
            BitXor(ciphertext[i], k[((i - 1) % KEY_SIZE("xor")) + 1])]))

\* the decrypt imported by obfuse_str.rs for the active backend
decrypt(b, ciphertext, k, n) ==
    IF b = "xor" THEN xor_decrypt(ciphertext, k, n)
    ELSE aead_decrypt(b, ciphertext, k, n)

(* ------------------------------------------------------------------ *)
(* Build-time encoder                                                  *)
(* ------------------------------------------------------------------ *)

\* the calls of encrypt made by the macro so far in this build, with their results
VARIABLE calls

\* SeedAbsorbStep with the position cast to u8 by saturation (255 from 255 on)
\* instead of truncation
SeedAbsorbStep_saturating(seed, i, result) ==
    LET byte == seed[i + 1]
        r1 == [result EXCEPT ![(i % 32) + 1] = BitXor(@, byte)]
        pos == IF i > 255 THEN 255 ELSE i
    IN  [r1 EXCEPT ![((i + 7) % 32) + 1] =
            WrappingAdd(@, WrappingMul(byte, WrappingAdd(pos, 1)))]

\* the body of the first loop of create_seed_bytes at 0-based position i
SeedAbsorbStep(seed, i, result) ==
    LET byte == seed[i + 1]
        r1 == [result EXCEPT ![(i % 32) + 1] = BitXor(@, byte)]
    IN  [r1 EXCEPT ![((i + 7) % 32) + 1] =
            WrappingAdd(@, WrappingMul(byte, WrappingAdd(i % 256, 1)))]

RECURSIVE SeedAbsorb(_, _, _, _)
\* the first loop of create_seed_bytes over positions lo..hi-1 in order.
\* The range is split in halves and the left half is evaluated first (its value
\* is tested), which keeps the evaluation depth logarithmic.
SeedAbsorb(seed, lo, hi, result) ==
    IF hi <= lo THEN result
    ELSE IF hi = lo + 1 THEN SeedAbsorbStep(seed, lo, result)
    ELSE LET mid == (lo + hi) \div 2
             left == SeedAbsorb(seed, lo, mid, result)
         IN  IF Len(left) = 32 THEN SeedAbsorb(seed, mid, hi, left) ELSE left

\* the body of the mixing loop at 0-based slot i
SeedMixStep(result, i) ==
    [result EXCEPT ![i + 1] =
        WrappingMul(WrappingAdd(@, result[((i + 13) % 32) + 1]),
                    WrappingAdd(result[((i + 7) % 32) + 1], 1))]

RECURSIVE SeedMix(_, _, _)
\* steps lo..hi-1 of the 3 * 32 mixing steps in order (step s works on slot s % 32);
\* halved like SeedAbsorb
SeedMix(result, lo, hi) ==
    IF hi <= lo THEN result
    ELSE IF hi = lo + 1 THEN SeedMixStep(result, lo % 32)
    ELSE LET mid == (lo + hi) \div 2
             left == SeedMix(result, lo, mid)
         IN  IF Len(left) = 32 THEN SeedMix(left, mid, hi) ELSE left

\* number of mixing passes
MixPasses == 3

\* create_seed_bytes
create_seed_bytes(seed) ==
    SeedMix(SeedAbsorb(seed, 0, Len(seed), Zeros(32)), 0, MixPasses * 32)

\* ChaCha20Rng::from_seed(seed32) followed by fill_bytes: stream byte i (1-based)
RngByte(seed32, i) ==
    (seed32[((i - 1) % 32) + 1] * 5 + seed32[((i + 10) % 32) + 1] + 3 * i) % 256

\* generate_deterministic drawing from one generator kept for the whole build (a
\* static seeded once) instead of one made from the seed in each call
generate_deterministic_shared_rng(b, k) ==
    LET seed_bytes == create_seed_bytes(k)
        drawn == Len(calls) * (ENC_KEY_SIZE(b) + ENC_NONCE_SIZE(b))
    IN  [key |-> ToBytes([i \in 1..ENC_KEY_SIZE(b) |-> RngByte(seed_bytes, drawn + i)]),
         nonce |-> ToBytes([i \in 1..ENC_NONCE_SIZE(b) |->
                        RngByte(seed_bytes, drawn + ENC_KEY_SIZE(b) + i)])]

\* generate_deterministic: key first, then nonce, from one stream
generate_deterministic(b, seed) ==
    LET seed_bytes == create_seed_bytes(seed)
    IN  [key |-> ToBytes([i \in 1..ENC_KEY_SIZE(b) |-> RngByte(seed_bytes, i)]),
         nonce |-> ToBytes([i \in 1..ENC_NONCE_SIZE(b) |->
                        RngByte(seed_bytes, ENC_KEY_SIZE(b) + i)])]

\* the draws getrandom may return, indexed by an entropy value e
generate_random(b, e) ==
    [key |-> ToBytes([i \in 1..ENC_KEY_SIZE(b) |-> (37 * i + 101 * e + 11) % 256]),
     nonce |-> ToBytes([i \in 1..ENC_NONCE_SIZE(b) |-> (59 * i + 83 * e + 7) % 256])]

\* generate_key_nonce: seed is None or Some(bytes of the seed string)
generate_key_nonce(b, seed, e) ==
    IF seed.some THEN generate_deterministic(b, seed.val)
    ELSE generate_random(b, e)

\* encrypt_with_algorithm, one definition per feature
encrypt_with_algorithm(b, pt, k, n) ==
    IF b = "xor"
    THEN ToBytes([i \in 1..Len(pt) |->
                    BitXor(pt[i], k[((i - 1) % ENC_KEY_SIZE("xor")) + 1])])
    ELSE AeadSeal(b, k, n, pt)

\* encrypt: the triple (ciphertext, key, nonce)
encrypt(b, pt, seed, e) ==
    LET kn == generate_key_nonce(b, seed, e)
    IN  [ciphertext |-> encrypt_with_algorithm(b, pt, kn.key, kn.nonce),
         key |-> kn.key, nonce |-> kn.nonce]

(* ------------------------------------------------------------------ *)
(* std::str::from_utf8                                                 *)
(* ------------------------------------------------------------------ *)

IsCont(x) == x >= 128 /\ x <= 191

\* length of the well-formed UTF-8 sequence starting at b[i], 0 when there is none
Utf8SeqLen(b, i) ==
    LET n == Len(b)
        x == b[i]
        c1 == IF i + 1 <= n THEN b[i + 1] ELSE 0
        c2 == IF i + 2 <= n THEN b[i + 2] ELSE 0
        c3 == IF i + 3 <= n THEN b[i + 3] ELSE 0
    IN  IF x <= 127 THEN 1
        ELSE IF x >= 194 /\ x <= 223 THEN (IF IsCont(c1) THEN 2 ELSE 0)
        ELSE IF x = 224 THEN (IF c1 >= 160 /\ c1 <= 191 /\ IsCont(c2) THEN 3 ELSE 0)
        ELSE IF x = 237 THEN (IF c1 >= 128 /\ c1 <= 159 /\ IsCont(c2) THEN 3 ELSE 0)
        ELSE IF x >= 225 /\ x <= 239 THEN (IF IsCont(c1) /\ IsCont(c2) THEN 3 ELSE 0)
        ELSE IF x = 240
             THEN (IF c1 >= 144 /\ c1 <= 191 /\ IsCont(c2) /\ IsCont(c3) THEN 4 ELSE 0)
        ELSE IF x >= 241 /\ x <= 243
             THEN (IF IsCont(c1) /\ IsCont(c2) /\ IsCont(c3) THEN 4 ELSE 0)
        ELSE IF x = 244
             THEN (IF c1 >= 128 /\ c1 <= 143 /\ IsCont(c2) /\ IsCont(c3) THEN 4 ELSE 0)
        ELSE 0

RECURSIVE Utf8ValidUpTo(_, _)
\* number of leading bytes of b, from 1-based index i on, that are well-formed
Utf8ValidUpTo(b, i) ==
    IF i > Len(b) THEN Len(b)
    ELSE LET k == Utf8SeqLen(b, i)
         IN  IF k = 0 THEN i - 1 ELSE Utf8ValidUpTo(b, i + k)

\* std::str::from_utf8(bytes).map_err(ObfuseError::from)
from_utf8(bytes) ==
    LET v == Utf8ValidUpTo(bytes, 1)
    IN  IF v = Len(bytes) THEN Ok(bytes) ELSE ErrUtf8(v)

(* ------------------------------------------------------------------ *)
(* Inputs of the model                                                 *)
(* ------------------------------------------------------------------ *)

\* number of distinct draws the entropy source can give in random mode
NumEntropy == 1

\* length of the longest literal, chosen above the key size so that the key cycles
LongLen == 33

\* literals: "", "hi", and "e-acute, newline" (multi-byte text with a control character)
Texts == {<<>>, <<104, 105>>, <<195, 169, 10>>}

\* further literals: a 3-byte and a 4-byte character, and LongLen ASCII letters
MoreTexts ==
    Texts \cup {<<228, 184, 150>>, <<240, 159, 140, 141>>,
                ToBytes([i \in 1..LongLen |-> 97 + (i % 26)])}

\* seed strings: "" and "k1"
SeedStrings == {<<>>, <<107, 49>>}

\* the seed argument of obfuse!: absent (with the entropy draw e) or a string
SeedChoicesOver(strings, draws) ==
    {[seed |-> None, e |-> e] : e \in 1..draws}
        \cup {[seed |-> Some(s), e |-> 0] : s \in strings}

\* seed choices of the lifecycle specification (one draw, one seed string) and of
\* the single-caller one
SeedChoices == {[seed |-> None, e |-> 1], [seed |-> Some(<<107, 49>>), e |-> 0]}
MoreSeedChoices == SeedChoicesOver(SeedStrings, NumEntropy)

\* a byte string with bit `bit` of byte `pos` flipped
FlipBit(s, pos, bit) == [s EXCEPT ![pos] = BitXor(@, Pow2(bit))]

\* what is done to the encoder's triple before it reaches ObfuseStr::new
ApplyTamper(tr, t) ==
    CASE t.kind = "flip" -> [tr EXCEPT !.ciphertext = FlipBit(@, t.pos, t.bit)]
      [] t.kind = "key" -> [tr EXCEPT !.key = FlipBit(@, t.pos, t.bit)]
      [] t.kind = "nonce" -> [tr EXCEPT !.nonce = FlipBit(@, t.pos, t.bit)]
      [] t.kind = "rekey" -> [tr EXCEPT !.key = t.with]
      [] t.kind = "renonce" -> [tr EXCEPT !.nonce = t.with]
      [] t.kind = "trunc" -> [tr EXCEPT !.ciphertext = SubSeq(@, 1, t.pos)]
      [] OTHER -> tr

NoTamper == [kind |-> "none", pos |-> 0, bit |-> 0, with |-> <<>>]
Tamper(kind, pos, bit) == [kind |-> kind, pos |-> pos, bit |-> bit, with |-> <<>>]

\* the triples the lifecycle specification starts from: the encoder's own, one
\* with a ciphertext bit flipped, one with a key bit flipped
FewTampers(tr) ==
    {NoTamper, Tamper("key", 1, 0)}
        \cup (IF Len(tr.ciphertext) > 0 THEN {Tamper("flip", 1, 7)} ELSE {})

\* every tampering of the single-caller specification: each single bit flip of
\* the ciphertext, bit flips at both ends of key and nonce, the key or the nonce
\* of another seed choice, and each truncation
AllTampers(b, tr, sc) ==
    {NoTamper}
        \cup {Tamper("flip", p, bit) : p \in 1..Len(tr.ciphertext), bit \in 0..7}
        \cup {Tamper("key", p, bit) : p \in {1, Len(tr.key)}, bit \in {0, 7}}
        \cup {Tamper("nonce", p, bit) : p \in {1, Len(tr.nonce)}, bit \in {0, 7}}
        \cup {Tamper("trunc", n, 0) : n \in 0..(Len(tr.ciphertext) - 1)}
        \cup {[kind |-> "rekey", pos |-> 0, bit |-> 0,
                with |-> generate_key_nonce(b, o.seed, o.e).key] :
                    o \in {x \in MoreSeedChoices :
                              generate_key_nonce(b, x.seed, x.e).key # tr.key}}
        \cup {[kind |-> "renonce", pos |-> 0, bit |-> 0,
                with |-> generate_key_nonce(b, o.seed, o.e).nonce] :
                    o \in {x \in MoreSeedChoices :
                              generate_key_nonce(b, x.seed, x.e).nonce # tr.nonce}}

(* ------------------------------------------------------------------ *)
(* State                                                               *)
(* ------------------------------------------------------------------ *)

VARIABLES
    backend,      \* the backend the build selected
    text,         \* the literal given to obfuse!
    seed,         \* the seed choice given to obfuse!
    tamper,       \* what was done to the triple before construction
    encrypted,    \* ObfuseStr.encrypted
    key,          \* ObfuseStr.key
    nonce,        \* ObfuseStr.nonce
    decrypted,    \* ObfuseStr.decrypted: OnceLock<Box<[u8]>>
    pc,           \* per thread: position inside try_as_bytes
    held,         \* per thread: the local `plaintext` between decrypt and set
    lastRet,      \* the result of the latest try_as_bytes call that returned
    decryptCalls, \* executions of the backend decrypt (saturating)
    setWins,      \* OnceLock::set calls that stored their value (saturating)
    scrub,        \* "none", or the state the value was in at a manual zeroize
    scrubRun,     \* manual zeroize calls made in a row just now (saturating)
    alive,        \* FALSE once the value is dropped
    dropScrubs,   \* zeroize calls made by Drop::drop
    features,     \* the algorithm features the build enables
    observed      \* the output of the latest is_decrypted() or Debug formatting

vars == <<backend, text, seed, tamper, encrypted, key, nonce, decrypted, pc, held,
          lastRet, decryptCalls, setWins, scrub, scrubRun, alive, dropScrubs,
          features, calls, observed>>

config == <<backend, text, seed, tamper>>

\* what the build left behind and what the observers printed: no step of
\* try_as_bytes, zeroize or drop writes them
build == <<features, calls, observed>>

Threads == 1..NumThreads

(* ------------------------------------------------------------------ *)
(* ObfuseStr                                                           *)
(* ------------------------------------------------------------------ *)

\* ObfuseStr::new
new(enc, k, n) == [encrypted |-> enc, key |-> k, nonce |-> n, decrypted |-> None]

\* OnceLock::get
OnceLock_get(cell) == cell

\* a set that gives up under contention and stores nothing
OnceLock_set_lost(cell, v) == [cell |-> cell, stored |-> FALSE]

\* a set that stores v whatever the cell holds
OnceLock_set_overwrite(cell, v) == [cell |-> Some(v), stored |-> TRUE]

\* OnceLock::set: stores v only when the cell is empty
OnceLock_set(cell, v) ==
    IF cell.some THEN [cell |-> cell, stored |-> FALSE]
    ELSE [cell |-> Some(v), stored |-> TRUE]

\* ObfuseStr::is_decrypted
is_decrypted(cell) == OnceLock_get(cell).some

\* a zeroize that empties the cell (OnceLock::take) instead of zeroing in place
zeroize_take(k, n, cell) ==
    [key |-> Zeros(Len(k)), nonce |-> Zeros(Len(n)), decrypted |-> None]

\* a zeroize that forgets the cached plaintext
zeroize_keys_only(k, n, cell) ==
    [key |-> Zeros(Len(k)), nonce |-> Zeros(Len(n)), decrypted |-> cell]

\* ObfuseStr::zeroize on the fields (key, nonce, decrypted)
zeroize(k, n, cell) ==
    [key |-> Zeros(Len(k)),
     nonce |-> Zeros(Len(n)),
     decrypted |-> IF cell.some THEN Some(Zeros(Len(cell.val))) ELSE cell]

\* a drop that does not scrub
drop_without_zeroize(k, n, cell) ==
    [fields |-> [key |-> k, nonce |-> n, decrypted |-> cell], calls |-> 0]

\* Drop::drop: the fields it leaves behind and the zeroize calls it made
drop(k, n, cell) == [fields |-> zeroize(k, n, cell), calls |-> 1]

\* a try_as_str that skips the validation (from_utf8_unchecked)
try_as_str_unchecked(r) == r

\* ObfuseStr::try_as_str on the result r of try_as_bytes
try_as_str(r) == IF r.kind = "Ok" THEN from_utf8(r.val) ELSE r

\* ObfuseStr::as_str: unwrap_or_else(panic!)
as_str(r) ==
    LET x == try_as_str(r)
    IN  IF x.kind = "Err" THEN Panic("ObfuseStr decryption failed") ELSE x

\* ObfuseStr::as_bytes: unwrap_or_else(panic!)
as_bytes(r) == IF r.kind = "Err" THEN Panic("ObfuseStr decryption failed") ELSE r

\* ObfuseStr::try_decrypt: map(|_| ())
try_decrypt(r) == IF r.kind = "Ok" THEN Ok(<<>>) ELSE r

Bump(n, max) == IF n < max THEN n + 1 ELSE n

AllIdle == \A t \in Threads : pc[t] = "idle"

(* ------------------------------------------------------------------ *)
(* Initial states                                                      *)
(* ------------------------------------------------------------------ *)

\* the state after ObfuseStr::new(triple), where the triple is enc, the output of
\* encrypt(s, seed) for obfuse!(s, seed), tampered as t says
Constructed(b, s, sc, enc, t) ==
    LET tr == ApplyTamper(enc, t)
        obj == new(tr.ciphertext, tr.key, tr.nonce)
    IN  /\ backend = b
        /\ text = s
        /\ seed = sc
        /\ tamper = t
        /\ encrypted = obj.encrypted
        /\ key = obj.key
        /\ nonce = obj.nonce
        /\ decrypted = obj.decrypted
        /\ pc = [th \in Threads |-> "idle"]
        /\ held = [th \in Threads |-> None]
        /\ lastRet = NoRet
        /\ decryptCalls = 0
        /\ setWins = 0
        /\ scrub = "none"
        /\ scrubRun = 0
        /\ alive = TRUE
        /\ dropScrubs = 0
        /\ features = {b}
        /\ calls = <<>>
        /\ observed = NotObserved

Init ==
    \E b \in Backends, s \in Texts, sc \in SeedChoices :
        LET enc == encrypt(b, s, sc.seed, sc.e)
        IN  \E t \in FewTampers(enc) : Constructed(b, s, sc, enc, t)

(* ------------------------------------------------------------------ *)
(* try_as_bytes, step by step                                          *)
(* ------------------------------------------------------------------ *)

\* line 122-124: the cache is populated, return it
GetCached(t) ==
    /\ alive
    /\ pc[t] = "idle"
    /\ OnceLock_get(decrypted).some
    /\ lastRet' = Ok(OnceLock_get(decrypted).val)
    /\ UNCHANGED <<config, build, encrypted, key, nonce, decrypted, pc, held,
                   decryptCalls, setWins, scrub, alive, dropScrubs>>
    /\ scrubRun' = 0

\* GetMiss behind a lock: the caller waits while another thread is decrypting
GetMiss_waiting(t) ==
    /\ alive
    /\ pc[t] = "idle"
    /\ ~OnceLock_get(decrypted).some
    /\ \A u \in Threads : pc[u] = "idle"
    /\ pc' = [pc EXCEPT ![t] = "decrypt"]
    /\ UNCHANGED <<config, build, encrypted, key, nonce, decrypted, held, lastRet,
                   decryptCalls, setWins, scrub, alive, dropScrubs>>
    /\ scrubRun' = 0

\* GetMiss without the look at the cache
GetMiss_unchecked(t) ==
    /\ alive
    /\ pc[t] = "idle"
    /\ pc' = [pc EXCEPT ![t] = "decrypt"]
    /\ UNCHANGED <<config, build, encrypted, key, nonce, decrypted, held, lastRet,
                   decryptCalls, setWins, scrub, alive, dropScrubs>>
    /\ scrubRun' = 0

\* line 122: the cache is empty, go on to decrypt
GetMiss(t) ==
    /\ alive
    /\ pc[t] = "idle"
    /\ ~OnceLock_get(decrypted).some
    /\ pc' = [pc EXCEPT ![t] = "decrypt"]
    /\ UNCHANGED <<config, build, encrypted, key, nonce, decrypted, held, lastRet,
                   decryptCalls, setWins, scrub, alive, dropScrubs>>
    /\ scrubRun' = 0

\* line 127: decrypt(...)? succeeded
DecryptOk(t) ==
    /\ pc[t] = "decrypt"
    /\ pc' = [pc EXCEPT ![t] = "set"]
    /\ LET r == decrypt(backend, encrypted, key, nonce)
       IN  /\ r.kind = "Ok"
           /\ held' = [held EXCEPT ![t] = Some(r.val)]
    /\ decryptCalls' = Bump(decryptCalls, MaxDecrypts)
    /\ UNCHANGED <<config, build, encrypted, key, nonce, decrypted, lastRet,
                   setWins, scrub, alive, dropScrubs>>
    /\ scrubRun' = 0

\* DecryptErr that stores an empty plaintext on failure (get_or_init with a default)
DecryptErr_caching(t) ==
    /\ pc[t] = "decrypt"
    /\ pc' = [pc EXCEPT ![t] = "idle"]
    /\ LET r == decrypt(backend, encrypted, key, nonce)
       IN  /\ r.kind # "Ok"
           /\ lastRet' = r
    /\ decrypted' = Some(<<>>)
    /\ decryptCalls' = Bump(decryptCalls, MaxDecrypts)
    /\ UNCHANGED <<config, build, encrypted, key, nonce, held,
                   setWins, scrub, alive, dropScrubs>>
    /\ scrubRun' = 0

\* line 127: decrypt(...)? failed, the error is returned
DecryptErr(t) ==
    /\ pc[t] = "decrypt"
    /\ pc' = [pc EXCEPT ![t] = "idle"]
    /\ LET r == decrypt(backend, encrypted, key, nonce)
       IN  /\ r.kind # "Ok"
           /\ lastRet' = r
    /\ decryptCalls' = Bump(decryptCalls, MaxDecrypts)
    /\ UNCHANGED <<config, build, encrypted, key, nonce, decrypted, held,
                   setWins, scrub, alive, dropScrubs>>
    /\ scrubRun' = 0

\* line 131: let _ = self.decrypted.set(plaintext)
SetCache(t) ==
    /\ pc[t] = "set"
    /\ LET r == OnceLock_set(decrypted, held[t].val)
       IN  /\ decrypted' = r.cell
           /\ setWins' = IF r.stored THEN Bump(setWins, MaxSets) ELSE setWins
    /\ held' = [held EXCEPT ![t] = None]
    /\ pc' = [pc EXCEPT ![t] = "get"]
    /\ UNCHANGED <<config, build, encrypted, key, nonce, lastRet,
                   decryptCalls, scrub, alive, dropScrubs>>
    /\ scrubRun' = 0

\* line 134: Ok(self.decrypted.get().expect("just set").as_ref())
GetAfterSet(t) ==
    /\ pc[t] = "get"
    /\ lastRet' = IF OnceLock_get(decrypted).some
                  THEN Ok(OnceLock_get(decrypted).val)
                  ELSE Panic("just set")
    /\ pc' = [pc EXCEPT ![t] = "idle"]
    /\ UNCHANGED <<config, build, encrypted, key, nonce, decrypted, held,
                   decryptCalls, setWins, scrub, alive, dropScrubs>>
    /\ scrubRun' = 0

(* ------------------------------------------------------------------ *)
(* zeroize and drop: &mut self, so no accessor is in progress          *)
(* ------------------------------------------------------------------ *)

\* a manual call of ObfuseStr::zeroize
Zeroize ==
    /\ alive
    /\ AllIdle
    /\ LET z == zeroize(key, nonce, decrypted)
       IN  /\ key' = z.key
           /\ nonce' = z.nonce
           /\ decrypted' = z.decrypted
    /\ scrub' = IF decrypted.some THEN "unlocked"
                ELSE IF scrub = "none" THEN "locked" ELSE scrub
    /\ scrubRun' = Bump(scrubRun, MaxScrubRun)
    /\ UNCHANGED <<config, build, encrypted, pc, held, lastRet,
                   decryptCalls, setWins, alive, dropScrubs>>

\* the value goes out of scope
Drop ==
    /\ alive
    /\ AllIdle
    /\ LET d == drop(key, nonce, decrypted)
       IN  /\ key' = d.fields.key
           /\ nonce' = d.fields.nonce
           /\ decrypted' = d.fields.decrypted
           /\ dropScrubs' = dropScrubs + d.calls
    /\ alive' = FALSE
    /\ scrubRun' = 0
    /\ UNCHANGED <<config, build, encrypted, pc, held, lastRet,
                   decryptCalls, setWins, scrub>>

Next ==
    \/ \E t \in Threads : GetCached(t)
    \/ \E t \in Threads : GetMiss(t)
    \/ \E t \in Threads : DecryptOk(t)
    \/ \E t \in Threads : DecryptErr(t)
    \/ \E t \in Threads : SetCache(t)
    \/ \E t \in Threads : GetAfterSet(t)
    \/ Zeroize
    \/ Drop

Spec == Init /\ [][Next]_vars

(* ------------------------------------------------------------------ *)
(* One caller, every input: the same value and accessor steps, started *)
(* from every literal, seed choice and tampering                       *)
(* ------------------------------------------------------------------ *)

InitSingle ==
    \E b \in Backends, s \in MoreTexts, sc \in MoreSeedChoices :
        LET enc == encrypt(b, s, sc.seed, sc.e)
        IN  \E t \in AllTampers(b, enc, sc) : Constructed(b, s, sc, enc, t)

NextSingle ==
    \/ GetCached(1)
    \/ GetMiss(1)
    \/ DecryptOk(1)
    \/ DecryptErr(1)
    \/ SetCache(1)
    \/ GetAfterSet(1)

SpecSingle == InitSingle /\ [][NextSingle]_vars


(* ------------------------------------------------------------------ *)
(* The build: feature selection (cfg) and the macro's calls of encrypt *)
(* ------------------------------------------------------------------ *)

\* number of obfuse! invocations of one build that the model follows
MaxCalls == 2

\* length of the longest seed string, above 256 so that `i as u8` wraps
LongSeedLen == 258

\* cfg(any(feature = ...)) over the four algorithm features
AnyFeature(F) ==
    \/ "aes-256-gcm" \in F \/ "aes-128-gcm" \in F
    \/ "chacha20-poly1305" \in F \/ "xor" \in F

\* the four cfg conditions, the same in obfuse_str.rs, core lib.rs and encrypt.rs
CfgAes256(F) == "aes-256-gcm" \in F
CfgAes128(F) == "aes-128-gcm" \in F /\ ~("aes-256-gcm" \in F)
CfgChaCha(F) ==
    "chacha20-poly1305" \in F /\ ~("aes-256-gcm" \in F \/ "aes-128-gcm" \in F)
CfgXor(F) ==
    "xor" \in F /\
        ~("aes-256-gcm" \in F \/ "aes-128-gcm" \in F \/ "chacha20-poly1305" \in F)

\* aes.rs: the glob re-exports of mod aes (aes256::* or aes128::*)
AesExports(F) ==
    (IF CfgAes256(F) THEN {[item |-> "aes256", alg |-> "aes-256-gcm"]} ELSE {})
        \cup (IF CfgAes128(F) THEN {[item |-> "aes128", alg |-> "aes-128-gcm"]} ELSE {})

\* obfuse_str.rs: the `use crate::<module>::{KEY_SIZE, NONCE_SIZE, decrypt}` items
\* that are compiled, each with the algorithm its decrypt is
RuntimeImports(F) ==
    (IF CfgAes256(F) THEN {[item |-> "use1", alg |-> e.alg] : e \in AesExports(F)} ELSE {})
        \cup (IF CfgAes128(F)
              THEN {[item |-> "use2", alg |-> e.alg] : e \in AesExports(F)} ELSE {})
        \cup (IF CfgChaCha(F) THEN {[item |-> "use3", alg |-> "chacha20-poly1305"]} ELSE {})
        \cup (IF CfgXor(F) THEN {[item |-> "use4", alg |-> "xor"]} ELSE {})

\* core lib.rs: the `pub use <module>::{KEY_SIZE, NONCE_SIZE}` items that are
\* compiled, with the sizes they export
LibExports(F) ==
    (IF CfgAes256(F)
     THEN {[item |-> "pub1", key_size |-> KEY_SIZE(e.alg), nonce_size |-> NONCE_SIZE(e.alg)] :
              e \in AesExports(F)} ELSE {})
        \cup (IF CfgAes128(F)
              THEN {[item |-> "pub2", key_size |-> KEY_SIZE(e.alg),
                     nonce_size |-> NONCE_SIZE(e.alg)] : e \in AesExports(F)} ELSE {})
        \cup (IF CfgChaCha(F)
              THEN {[item |-> "pub3", key_size |-> KEY_SIZE("chacha20-poly1305"),
                     nonce_size |-> NONCE_SIZE("chacha20-poly1305")]} ELSE {})
        \cup (IF CfgXor(F)
              THEN {[item |-> "pub4", key_size |-> KEY_SIZE("xor"),
                     nonce_size |-> NONCE_SIZE("xor")]} ELSE {})

\* core lib.rs: compile_error! when no algorithm feature is enabled
compile_error(F) == ~AnyFeature(F)

\* encrypt.rs: the KEY_SIZE / NONCE_SIZE constant pairs that are compiled
EncoderConsts(F) ==
    (IF CfgAes256(F)
     THEN {[item |-> "const1", key_size |-> ENC_KEY_SIZE("aes-256-gcm"),
            nonce_size |-> ENC_NONCE_SIZE("aes-256-gcm")]} ELSE {})
        \cup (IF CfgAes128(F)
              THEN {[item |-> "const2", key_size |-> ENC_KEY_SIZE("aes-128-gcm"),
                     nonce_size |-> ENC_NONCE_SIZE("aes-128-gcm")]} ELSE {})
        \cup (IF CfgChaCha(F)
              THEN {[item |-> "const3", key_size |-> ENC_KEY_SIZE("chacha20-poly1305"),
                     nonce_size |-> ENC_NONCE_SIZE("chacha20-poly1305")]} ELSE {})
        \cup (IF CfgXor(F)
              THEN {[item |-> "const4", key_size |-> ENC_KEY_SIZE("xor"),
                     nonce_size |-> ENC_NONCE_SIZE("xor")]} ELSE {})
        \cup (IF ~AnyFeature(F)
              THEN {[item |-> "const5", key_size |-> 32, nonce_size |-> 12]} ELSE {})

\* EncoderAlgorithms with the chacha cfg written without its not(aes-128-gcm)
EncoderAlgorithms_loose_cfg(F) ==
    (IF CfgAes256(F) THEN {[item |-> "fn1", alg |-> "aes-256-gcm"]} ELSE {})
        \cup (IF CfgAes128(F) THEN {[item |-> "fn2", alg |-> "aes-128-gcm"]} ELSE {})
        \cup (IF "chacha20-poly1305" \in F /\ ~("aes-256-gcm" \in F)
              THEN {[item |-> "fn3", alg |-> "chacha20-poly1305"]} ELSE {})
        \cup (IF CfgXor(F) THEN {[item |-> "fn4", alg |-> "xor"]} ELSE {})
        \cup (IF ~AnyFeature(F) THEN {[item |-> "fn5", alg |-> "panic"]} ELSE {})

\* encrypt.rs: the definitions of encrypt_with_algorithm that are compiled
EncoderAlgorithms(F) ==
    (IF CfgAes256(F) THEN {[item |-> "fn1", alg |-> "aes-256-gcm"]} ELSE {})
        \cup (IF CfgAes128(F) THEN {[item |-> "fn2", alg |-> "aes-128-gcm"]} ELSE {})
        \cup (IF CfgChaCha(F) THEN {[item |-> "fn3", alg |-> "chacha20-poly1305"]} ELSE {})
        \cup (IF CfgXor(F) THEN {[item |-> "fn4", alg |-> "xor"]} ELSE {})
        \cup (IF ~AnyFeature(F) THEN {[item |-> "fn5", alg |-> "panic"]} ELSE {})

\* the build goes through: no compile_error!, and one definition of every item
\* (two definitions of one name do not compile)
BuildOk(F) ==
    /\ ~compile_error(F)
    /\ Cardinality(RuntimeImports(F)) = 1
    /\ Cardinality(LibExports(F)) = 1
    /\ Cardinality(EncoderConsts(F)) = 1
    /\ Cardinality(EncoderAlgorithms(F)) = 1

\* the algorithm the runtime decrypts with
RuntimeBackend(F) ==
    IF Cardinality(RuntimeImports(F)) = 1
    THEN (CHOOSE e \in RuntimeImports(F) : TRUE).alg ELSE "none"

\* the algorithm the encoder encrypts with
EncoderBackend(F) ==
    IF Cardinality(EncoderAlgorithms(F)) = 1
    THEN (CHOOSE e \in EncoderAlgorithms(F) : TRUE).alg ELSE "none"

\* seed strings given to obfuse! in the build: "", "\0", "k1" and a string of
\* LongSeedLen letters
EncoderSeeds ==
    {<<>>, <<0>>, <<107, 49>>, ToBytes([i \in 1..LongSeedLen |-> 97 + ((i * 7) % 26)])}

\* literals given to obfuse! in the build
EncoderTexts == {<<>>, <<104, 105>>}

\* the state before the first obfuse! of a build with the features F
InitBuild ==
    \E F \in SUBSET Backends :
        /\ features = F
        /\ backend = RuntimeBackend(F)
        /\ text = <<>>
        /\ seed = [seed |-> None, e |-> 0]
        /\ tamper = NoTamper
        /\ encrypted = <<>>
        /\ key = <<>>
        /\ nonce = <<>>
        /\ decrypted = None
        /\ pc = [th \in Threads |-> "idle"]
        /\ held = [th \in Threads |-> None]
        /\ lastRet = NoRet
        /\ decryptCalls = 0
        /\ setWins = 0
        /\ scrub = "none"
        /\ scrubRun = 0
        /\ alive = FALSE
        /\ dropScrubs = 0
        /\ calls = <<>>
        /\ observed = NotObserved

\* obfuse_impl for obfuse!(s) / obfuse!(s, seed = k): encrypt at build time, then
\* the expansion ObfuseStr::new(ciphertext, key, nonce)
Obfuse(s, sc) ==
    /\ BuildOk(features)
    /\ Len(calls) < MaxCalls
    /\ \E alg \in {EncoderBackend(features)} :
         \E enc \in {encrypt(alg, s, sc.seed, sc.e)} :
         \E obj \in {new(enc.ciphertext, enc.key, enc.nonce)} :
           /\ calls' = Append(calls,
                  [plaintext |-> s, seed |-> sc.seed, alg |-> alg,
                   seed_bytes |-> IF sc.seed.some THEN create_seed_bytes(sc.seed.val)
                                  ELSE <<>>,
                   ciphertext |-> enc.ciphertext, key |-> enc.key, nonce |-> enc.nonce])
           /\ encrypted' = obj.encrypted
           /\ key' = obj.key
           /\ nonce' = obj.nonce
           /\ decrypted' = obj.decrypted
    /\ text' = s
    /\ seed' = sc
    /\ alive' = TRUE
    /\ UNCHANGED <<backend, tamper, features, pc, held, lastRet, decryptCalls,
                   setWins, scrub, scrubRun, dropScrubs, observed>>

NextBuild ==
    \E s \in EncoderTexts, sc \in SeedChoicesOver(EncoderSeeds, NumEntropy) : Obfuse(s, sc)

SpecBuild == InitBuild /\ [][NextBuild]_vars

(* ------------------------------------------------------------------ *)
(* The race on the first access: every thread calls try_as_bytes, and   *)
(* the scheduler lets every running thread take its next step           *)
(* ------------------------------------------------------------------ *)

\* number of threads racing on the first access
RaceThreads == 3

\* the next step of thread t inside or at the start of try_as_bytes
ThreadStep(t) ==
    \/ GetCached(t) \/ GetMiss(t) \/ DecryptOk(t)
    \/ DecryptErr(t) \/ SetCache(t) \/ GetAfterSet(t)

\* the value built by obfuse!("hi", seed = "k1") under every backend, with the
\* triple as embedded or tampered with
InitRace ==
    \E b \in Backends, s \in {<<104, 105>>}, sc \in {[seed |-> Some(<<107, 49>>), e |-> 0]} :
        LET enc == encrypt(b, s, sc.seed, sc.e)
        IN  \E t \in FewTampers(enc) : Constructed(b, s, sc, enc, t)

NextRace ==
    \/ \E t \in 1..RaceThreads : GetCached(t)
    \/ \E t \in 1..RaceThreads : GetMiss(t)
    \/ \E t \in 1..RaceThreads : DecryptOk(t)
    \/ \E t \in 1..RaceThreads : DecryptErr(t)
    \/ \E t \in 1..RaceThreads : SetCache(t)
    \/ \E t \in 1..RaceThreads : GetAfterSet(t)

\* no step of try_as_bytes blocks, so a thread that can step does step
FairRace == \A t \in 1..RaceThreads : WF_vars(ThreadStep(t))

SpecRace == InitRace /\ [][NextRace]_vars /\ FairRace

(* ------------------------------------------------------------------ *)
(* Observers: is_decrypted() and Debug formatting take &self, so they   *)
(* run at any point of the accessors of other threads                  *)
(* ------------------------------------------------------------------ *)

\* number of threads that run accessors next to the observers
ObserveThreads == 2

\* a derived Debug: it prints the fields, the cache among them
fmt_Debug_derived(enc, k, n, cell) ==
    <<79, 98, 102, 117, 115, 101, 83, 116, 114, 32, 123, 32>>
        \o enc \o k \o n \o cell.val \o <<32, 125>>

\* impl fmt::Debug: ObfuseStr { value: "[REDACTED]", decrypted: <bool> }
fmt_Debug(enc, k, n, cell) ==
    <<79, 98, 102, 117, 115, 101, 83, 116, 114, 32, 123, 32,
      118, 97, 108, 117, 101, 58, 32, 34, 91, 82, 69, 68, 65, 67, 84, 69, 68, 93, 34,
      44, 32, 100, 101, 99, 114, 121, 112, 116, 101, 100, 58, 32>>
        \o (IF is_decrypted(cell) THEN <<116, 114, 117, 101>>
            ELSE <<102, 97, 108, 115, 101>>)
        \o <<32, 125>>

\* a call of is_decrypted()
IsDecrypted ==
    /\ alive
    /\ observed' = [op |-> "is_decrypted", ret |-> is_decrypted(decrypted), out |-> <<>>]
    /\ UNCHANGED <<config, features, calls, encrypted, key, nonce, decrypted, pc, held,
                   lastRet, decryptCalls, setWins, scrub, scrubRun, alive, dropScrubs>>

\* format!("{:?}", value)
DebugFmt ==
    /\ alive
    /\ observed' = [op |-> "Debug", ret |-> TRUE,
                    out |-> fmt_Debug(encrypted, key, nonce, decrypted)]
    /\ UNCHANGED <<config, features, calls, encrypted, key, nonce, decrypted, pc, held,
                   lastRet, decryptCalls, setWins, scrub, scrubRun, alive, dropScrubs>>

InitObserve == Init

NextObserve ==
    \/ \E t \in 1..ObserveThreads : GetCached(t)
    \/ \E t \in 1..ObserveThreads : GetMiss(t)
    \/ \E t \in 1..ObserveThreads : DecryptOk(t)
    \/ \E t \in 1..ObserveThreads : DecryptErr(t)
    \/ \E t \in 1..ObserveThreads : SetCache(t)
    \/ \E t \in 1..ObserveThreads : GetAfterSet(t)
    \/ Zeroize
    \/ Drop
    \/ IsDecrypted
    \/ DebugFmt

SpecObserve == InitObserve /\ [][NextObserve]_vars

(* ------------------------------------------------------------------ *)
(* Properties                                                          *)
(* ------------------------------------------------------------------ *)

\* the triple is the encoder's own
Valid == tamper.kind = "none"

\* a step of some thread inside an accessor
AccessorStep ==
    \E t \in Threads :
        \/ GetCached(t) \/ GetMiss(t) \/ DecryptOk(t)
        \/ DecryptErr(t) \/ SetCache(t) \/ GetAfterSet(t)

\* key, nonce and the cached plaintext (if any) hold only zero bytes
Scrubbed(k, n, cell) == AllZero(k) /\ AllZero(n) /\ (cell.some => AllZero(cell.val))

\* C1: round trip. For every literal, seed choice and backend, the value built by
\* ObfuseStr::new from the triple of encrypt(s, seed) decrypts to s: the backend
\* decrypt gives exactly the bytes of s, and every call that has returned gave
\* them from try_as_bytes and as_bytes and gave s from try_as_str and as_str.
C1_RoundTrip ==
    Valid =>
        /\ decrypt(backend, encrypted, key, nonce) = Ok(text)
        /\ lastRet.kind # "none" =>
              /\ lastRet = Ok(text)
              /\ as_bytes(lastRet) = Ok(text)
              /\ try_as_str(lastRet) = Ok(text)
              /\ as_str(lastRet) = Ok(text)

\* C1 witness: a 4-byte character, seeded, ChaCha20-Poly1305, after a call returned
C1_Witness ==
    /\ Valid
    /\ backend = "chacha20-poly1305"
    /\ seed.seed.some
    /\ text = <<240, 159, 140, 141>>
    /\ as_str(lastRet) = Ok(text)

\* C2: cache coherence under racing callers. With NumThreads threads inside the
\* accessors of one value, at most one set of the cache stores its value, no
\* accessor step changes the cached bytes once they are set, and for a valid
\* triple (and no manual zeroize) every call that returns gives the plaintext.
C2_CacheCoherence ==
    /\ [](setWins <= 1)
    /\ [][(decrypted.some /\ AccessorStep) => decrypted' = decrypted]_vars
    /\ []((Valid /\ scrub = "none" /\ lastRet.kind # "none") =>
            (lastRet = Ok(text) /\ as_str(lastRet) = Ok(text)))

\* C2 witness: all the threads found the cache empty, decrypted and called set;
\* one set stored its value
C2_Witness ==
    /\ Valid
    /\ scrub = "none"
    /\ NumThreads >= 4
    /\ \A t \in Threads : pc[t] = "get"
    /\ setWins = 1
    /\ decrypted = Some(text)

\* C3: lazy lifecycle. is_decrypted() is false as long as no decrypt has run and
\* no set has stored a value (so it is false after new); it becomes true only by
\* the set of a thread that holds the result of a successful decrypt; once true
\* it is true in every later state.
C3_LazyLifecycle ==
    /\ [](is_decrypted(decrypted) => (decryptCalls >= 1 /\ setWins >= 1))
    /\ [][(~is_decrypted(decrypted) /\ is_decrypted(decrypted')) =>
            \E t \in Threads :
                /\ SetCache(t)
                /\ held[t].some
                /\ decrypted' = Some(held[t].val)]_vars
    /\ [][is_decrypted(decrypted) => is_decrypted(decrypted')]_vars

\* C3 witness: decrypted, then scrubbed by hand, then read again and dropped:
\* is_decrypted() is still true
C3_Witness ==
    /\ is_decrypted(decrypted)
    /\ scrub = "unlocked"
    /\ lastRet.kind = "Ok"
    /\ Len(lastRet.val) > 0
    /\ AllZero(lastRet.val)
    /\ ~alive

\* C4: a failed decryption is not cached. A failing decrypt step returns
\* AuthenticationFailed, leaves the cache empty and ciphertext, key and nonce
\* unchanged; and whenever the latest call failed, the cache is empty (the next
\* access runs decrypt again) and decrypt on the current fields fails with the
\* same AuthenticationFailed error.
C4_FailureNotCached ==
    /\ [][(\E t \in Threads : DecryptErr(t)) =>
            /\ lastRet' = Err("AuthenticationFailed")
            /\ ~is_decrypted(decrypted')
            /\ <<encrypted, key, nonce, decrypted>>' = <<encrypted, key, nonce, decrypted>>]_vars
    /\ [](lastRet.kind = "Err" =>
            /\ ~is_decrypted(decrypted)
            /\ lastRet = Err("AuthenticationFailed")
            /\ decrypt(backend, encrypted, key, nonce) = lastRet)

\* C4 witness: a flipped ciphertext bit, two decrypt runs, both failed
C4_Witness ==
    /\ tamper.kind = "flip"
    /\ lastRet = Err("AuthenticationFailed")
    /\ decryptCalls >= 2
    /\ AllIdle
    /\ ~is_decrypted(decrypted)

\* C5: scrub on destruction. Once the value is dropped, drop has run zeroize
\* exactly once and every byte of key, of nonce and of the cached plaintext (when
\* there is one) is zero.
C5_ScrubOnDrop ==
    ~alive =>
        /\ dropScrubs = 1
        /\ Len(key) = KEY_SIZE(backend) /\ AllZero(key)
        /\ Len(nonce) = NONCE_SIZE(backend) /\ AllZero(nonce)
        /\ decrypted.some => AllZero(decrypted.val)

\* C5 witness: dropped while Unlocked, with no manual zeroize before
C5_Witness ==
    /\ ~alive
    /\ scrub = "none"
    /\ decrypted.some
    /\ Len(decrypted.val) > 0
    /\ lastRet = Ok(text)

\* C6: scrub idempotence. Every manual zeroize leaves key, nonce and the cached
\* plaintext (if present) all zero and leaves the ciphertext and whether the cache
\* is populated unchanged; a zeroize that directly follows a zeroize changes no
\* field at all.
C6_ScrubIdempotent ==
    [][Zeroize =>
        /\ Scrubbed(key', nonce', decrypted')
        /\ decrypted'.some = decrypted.some
        /\ encrypted' = encrypted
        /\ scrubRun >= 1 => <<key, nonce, decrypted>>' = <<key, nonce, decrypted>>]_vars

\* C6 witness: two manual zeroize calls in a row on an Unlocked value
C6_Witness ==
    /\ scrubRun >= 2
    /\ decrypted.some
    /\ Len(decrypted.val) > 0
    /\ alive

\* C7: scrub before first access. For a valid triple, after a zeroize made while
\* the value was Locked, every access that returns gives the original plaintext.
C7_ScrubLockedThenAccess ==
    (Valid /\ scrub = "locked" /\ lastRet.kind # "none") => lastRet = Ok(text)

\* C8: re-decrypt after manual scrub. Right after a zeroize of a value whose
\* plaintext is cached, no access returns the cache contents: the access goes on
\* to the backend decrypt.
C8_RedecryptAfterScrub ==
    [][(scrub = "unlocked" /\ scrubRun >= 1) => ~(\E t \in Threads : GetCached(t))]_vars

C10_AeadFailClosed ==
    (backend \in AeadBackends /\ ~Valid) =>
        /\ decrypt(backend, encrypted, key, nonce) = Err("AuthenticationFailed")
        /\ ~decrypted.some
        /\ \A t \in Threads : held[t] = None
        /\ lastRet.kind # "none" => lastRet = Err("AuthenticationFailed")

\* C10 witness: a bit of the body of the long literal flipped, AES-128-GCM, and the
\* call has returned the error
C10_Witness ==
    /\ backend = "aes-128-gcm"
    /\ tamper.kind = "flip"
    /\ tamper.pos <= Len(text)
    /\ Len(text) > 32
    /\ lastRet = Err("AuthenticationFailed")

\* C11: XOR backend semantics. For every ciphertext (of length 0, below, at and
\* above 32), 32-byte key and nonce the value is built from, xor::decrypt returns
\* Ok with an output as long as the ciphertext whose byte i (0-based) is
\* c[i] XOR k[i mod 32]; another nonce gives the same output; decrypting the
\* output again gives the ciphertext back; the encoder's XOR encrypt computes the
\* same bytes; and a caller that ran decrypt holds exactly these bytes.
C11_XorSemantics ==
    backend = "xor" =>
        LET r == xor_decrypt(encrypted, key, nonce)
        IN  /\ r.kind = "Ok"
            /\ Len(key) = 32
            /\ Len(r.val) = Len(encrypted)
            /\ \A i \in 0..(Len(encrypted) - 1) :
                  r.val[i + 1] = BitXor(encrypted[i + 1], key[(i % 32) + 1])
            /\ \A n2 \in {Zeros(Len(nonce)), FlipBit(nonce, 1, 0), FlipBit(nonce, Len(nonce), 7)} :
                  xor_decrypt(encrypted, key, n2) = r
            /\ xor_decrypt(r.val, key, nonce) = Ok(encrypted)
            /\ encrypt_with_algorithm("xor", encrypted, key, nonce) = r.val
            /\ held[1].some => held[1] = Some(r.val)
            /\ lastRet.kind # "none" => lastRet = r

\* C11 witness: a ciphertext longer than the key with a bit flipped beyond the
\* key length; the call returned the bytes with that flip
C11_Witness ==
    /\ backend = "xor"
    /\ Len(encrypted) > 32
    /\ tamper.kind = "flip"
    /\ tamper.pos > 32
    /\ lastRet.kind = "Ok"
    /\ lastRet.val # text
    /\ lastRet.val = FlipBit(text, tamper.pos, tamper.bit)

C13_SeedSensitivity ==
    \A i, j \in DOMAIN calls :
        (calls[i].seed.some /\ calls[j].seed.some /\ calls[i].seed # calls[j].seed) =>
            /\ calls[i].seed_bytes # calls[j].seed_bytes
            /\ calls[i].key # calls[j].key

\* the value of slot j after the bytes of block blk (positions 32 * blk .. 32 *
\* blk + 31) and of the blocks after it were taken in, when it was v before:
\* in a block, slot j is written by position 32 * blk + j (the XOR) and by
\* position 32 * blk + ((j + 25) mod 32) (the addition), in position order
RECURSIVE C14_SlotFrom(_, _, _, _)
C14_SlotFrom(bytes, j, blk, v) ==
    IF 32 * blk >= Len(bytes) THEN v
    ELSE LET px == 32 * blk + j
             pa == 32 * blk + ((j + 25) % 32)
             AddAt(x) == IF pa < Len(bytes)
                         THEN (x + ((bytes[pa + 1] * ((pa + 1) % 256)) % 256)) % 256
                         ELSE x
             XorAt(x) == IF px < Len(bytes) THEN BitXor(x, bytes[px + 1]) ELSE x
             w == IF px < pa THEN AddAt(XorAt(v)) ELSE XorAt(AddAt(v))
         IN  IF w >= 0 THEN C14_SlotFrom(bytes, j, blk + 1, w) ELSE w

\* one pass over the slots j..31 in order, in place; slots is a function on 0..31
RECURSIVE C14_Pass(_, _)
C14_Pass(slots, j) ==
    IF j > 31 THEN slots
    ELSE LET next == [slots EXCEPT ![j] =
                        ((slots[j] + slots[(j + 13) % 32]) * (slots[(j + 7) % 32] + 1)) % 256]
         IN  IF next[j] >= 0 THEN C14_Pass(next, j + 1) ELSE next

\* the 32 bytes the stated algorithm gives for a seed byte string
C14_Stated(bytes) ==
    LET start == [j \in 0..31 |-> C14_SlotFrom(bytes, j, 0, 0)]
        p1 == C14_Pass(start, 0)
        p2 == IF p1[0] >= 0 THEN C14_Pass(p1, 0) ELSE p1
        p3 == IF p2[0] >= 0 THEN C14_Pass(p2, 0) ELSE p2
    IN  [k \in 1..32 |-> p3[k - 1]]

\* C14: seed-mixing algorithm. For every seed string given to the first obfuse!
\* of a build (the empty seed, a zero byte, "k1", a seed longer than 256 bytes),
\* the 32 bytes create_seed_bytes returned are exactly those of the stated
\* algorithm: zero start; per byte b at position i: XOR into slot i mod 32, then
\* add b * ((i + 1) mod 256) mod 256 to slot (i + 7) mod 32; then 3 in-place passes
\* slot[j] := (slot[j] + slot[(j+13) mod 32]) * (slot[(j+7) mod 32] + 1) mod 256.
C14_SeedMixing ==
    (Len(calls) = 1 /\ calls[1].seed.some) =>
        /\ Len(calls[1].seed_bytes) = 32
        /\ \A k \in 1..32 : calls[1].seed_bytes[k] \in 0..255
        /\ calls[1].seed_bytes = C14_Stated(calls[1].seed.val)

\* C14 witness: the first invocation gave a seed longer than 256 bytes, and its
\* derived seed is not all zero
C14_Witness ==
    /\ Len(calls) = 1
    /\ calls[1].seed.some
    /\ Len(calls[1].seed.val) > 256
    /\ ~AllZero(calls[1].seed_bytes)

\* C15: encoder/runtime backend agreement. For every set of enabled algorithm
\* features: if it is empty the build is rejected (compile_error!) and nothing is
\* encoded; otherwise exactly one runtime import, one exported size pair, one
\* encoder constant pair and one encoder algorithm are compiled, the encoder's
\* algorithm and sizes are the runtime's, every invocation encrypted with that
\* algorithm, and the key and nonce embedded in the value have the runtime's
\* KEY_SIZE and NONCE_SIZE.
C15_BackendAgreement ==
    /\ features = {} => (compile_error(features) /\ ~BuildOk(features) /\ calls = <<>>)
    /\ features # {} =>
          /\ ~compile_error(features)
          /\ Cardinality(RuntimeImports(features)) = 1
          /\ Cardinality(LibExports(features)) = 1
          /\ Cardinality(EncoderConsts(features)) = 1
          /\ Cardinality(EncoderAlgorithms(features)) = 1
          /\ backend \in Backends
          /\ backend = RuntimeBackend(features)
          /\ EncoderBackend(features) = backend
          /\ \A r \in LibExports(features), e \in EncoderConsts(features) :
                /\ r.key_size = e.key_size /\ r.nonce_size = e.nonce_size
                /\ r.key_size = KEY_SIZE(backend) /\ r.nonce_size = NONCE_SIZE(backend)
          /\ \A i \in DOMAIN calls :
                /\ calls[i].alg = backend
                /\ Len(calls[i].key) = KEY_SIZE(backend)
                /\ Len(calls[i].nonce) = NONCE_SIZE(backend)
          /\ alive => (Len(key) = KEY_SIZE(backend) /\ Len(nonce) = NONCE_SIZE(backend))

\* C15 witness: a build with three features enabled, where AES-128-GCM wins, has
\* embedded a 16-byte key
C15_Witness ==
    /\ features = {"aes-128-gcm", "chacha20-poly1305", "xor"}
    /\ backend = "aes-128-gcm"
    /\ Len(calls) >= 1
    /\ alive
    /\ Len(key) = 16
    /\ Len(nonce) = 12

\* C16: text validation error. Once a call has returned, try_as_str on its
\* result is InvalidUtf8 exactly when decrypt of the triple succeeds with bytes
\* that are not well-formed UTF-8; it is the text when they are well-formed and
\* the decryption error unchanged when decrypt fails. The error carries the
\* offset of the first ill-formed sequence. In the InvalidUtf8 case the bytes
\* are cached all the same: is_decrypted() is true, try_as_bytes returned those
\* bytes, and the next call takes the cached path (no decrypt), so try_as_str
\* gives InvalidUtf8 again.
C16_InvalidUtf8 ==
    (lastRet.kind # "none" /\ pc[1] = "idle") =>
        LET d == decrypt(backend, encrypted, key, nonce)
            r == try_as_str(lastRet)
            bad == d.kind = "Ok" /\ from_utf8(d.val).kind # "Ok"
        IN  /\ (r.kind = "Err" /\ r.err = "InvalidUtf8") <=> bad
            /\ (d.kind = "Ok" /\ ~bad) => r = Ok(d.val)
            /\ d.kind # "Ok" => r = d
            /\ bad =>
                  /\ r.at < Len(d.val)
                  /\ from_utf8(SubSeq(d.val, 1, r.at)).kind = "Ok"
                  /\ \A k \in 1..4 :
                        r.at + k <= Len(d.val) =>
                            from_utf8(SubSeq(d.val, 1, r.at + k)).kind # "Ok"
                  /\ is_decrypted(decrypted)
                  /\ lastRet = Ok(d.val)
                  /\ OnceLock_get(decrypted) = Some(d.val)
                  /\ ENABLED GetCached(1)
                  /\ ~ENABLED GetMiss(1)
                  /\ decryptCalls = 1

\* C16 witness: the XOR backend with a ciphertext bit flipped so that the bytes
\* are ill-formed after a well-formed first byte; the call returned, the bytes
\* are cached and try_as_str gives InvalidUtf8 at offset 1
C16_Witness ==
    /\ backend = "xor"
    /\ tamper.kind = "flip"
    /\ pc[1] = "idle"
    /\ lastRet.kind = "Ok"
    /\ try_as_str(lastRet) = ErrUtf8(1)
    /\ is_decrypted(decrypted)
    /\ decryptCalls = 1

\* str::contains on byte strings
C17_Contains(hay, needle) ==
    \E i \in 1..(Len(hay) - Len(needle) + 1) :
        SubSeq(hay, i, i + Len(needle) - 1) = needle

\* what was printed by Debug: it holds [REDACTED], and neither the literal nor
\* the bytes in the cache; and an accessor that starts with the cache populated
\* can only take the cached path
C17_State ==
    /\ observed.op = "Debug" =>
          /\ C17_Contains(observed.out, <<91, 82, 69, 68, 65, 67, 84, 69, 68, 93>>)
          /\ Len(text) > 0 => ~C17_Contains(observed.out, text)
          /\ (decrypted.some /\ Len(decrypted.val) > 0) =>
                ~C17_Contains(observed.out, decrypted.val)
    /\ \A t \in Threads :
          (alive /\ pc[t] = "idle" /\ is_decrypted(decrypted)) =>
              ENABLED GetCached(t) /\ ~ENABLED GetMiss(t)

\* the steps: an observer changes nothing but its own output, which tells
\* whether the cache is populated; a caller that is idle while the cache is
\* populated does not leave the cached path; a call returning with the cache
\* populated returns the cached bytes and changes no field
C17_Step ==
    /\ observed' # observed =>
          /\ UNCHANGED <<config, features, calls, encrypted, key, nonce, decrypted, pc,
                         held, lastRet, decryptCalls, setWins, scrub, scrubRun, alive,
                         dropScrubs>>
          /\ observed'.op \in {"is_decrypted", "Debug"}
          /\ observed'.op = "is_decrypted" => observed'.ret = is_decrypted(decrypted)
          /\ observed'.op = "Debug" =>
                (C17_Contains(observed'.out, <<116, 114, 117, 101>>)
                    <=> is_decrypted(decrypted))
    /\ \A t \in Threads :
          (pc[t] = "idle" /\ is_decrypted(decrypted)) => pc'[t] = "idle"
    /\ (is_decrypted(decrypted) /\ lastRet' # lastRet) =>
          /\ lastRet' = Ok(OnceLock_get(decrypted).val)
          /\ UNCHANGED <<encrypted, key, nonce, decrypted, decryptCalls, setWins, held>>
    /\ \A t \in Threads :
          GetCached(t) =>
              /\ lastRet' = Ok(OnceLock_get(decrypted).val)
              /\ UNCHANGED <<encrypted, key, nonce, decrypted, decryptCalls, setWins,
                             held, pc>>

\* C17: operations that must not change state. is_decrypted() and Debug
\* formatting never run the backend decrypt and leave ciphertext, key, nonce and
\* cache as they are, in every state of the value and at every point of the
\* accessors of other threads; the Debug output holds [REDACTED] and never the
\* plaintext; an accessor call that starts with the cache populated returns the
\* cached bytes, runs no decrypt and changes no field.
C17_FrameEffects == []C17_State /\ [][C17_Step]_vars

\* C17 witness: Debug formatting ran on an unlocked value whose literal is "hi"
\* while another thread was between its decrypt and its set, and printed
\* decrypted: true
C17_Witness ==
    /\ observed.op = "Debug"
    /\ C17_Contains(observed.out, <<116, 114, 117, 101>>)
    /\ text = <<104, 105>>
    /\ decrypted = Some(text)
    /\ lastRet = Ok(text)
    /\ pc[2] = "set"
    /\ decryptCalls = 2

\* how far a caller is inside try_as_bytes
C18_Rank(p) ==
    CASE p = "idle" -> 0 [] p = "decrypt" -> 1 [] p = "set" -> 2 [] p = "get" -> 3

\* every thread can take a step whatever the others are doing; with a valid
\* triple no call returns anything but Ok of the literal
C18_State ==
    /\ \A t \in 1..RaceThreads : ENABLED ThreadStep(t)
    /\ Valid => lastRet.kind \in {"none", "Ok"}
    /\ (Valid /\ lastRet.kind = "Ok") => lastRet.val = text

\* a step moves one thread only, one position forward or back to the caller:
\* a call is over after at most four steps of its own thread
C18_Step ==
    \A t \in Threads :
        pc'[t] # pc[t] =>
            /\ \A u \in Threads \ {t} : pc'[u] = pc[u]
            /\ \/ pc'[t] = "idle"
               \/ C18_Rank(pc'[t]) = C18_Rank(pc[t]) + 1

\* C18: non-blocking termination. No accessor waits on another thread: in every
\* state every thread can take its next step. Threads racing on the first access
\* each run their own decrypt; a call returns after at most four steps of its
\* own; under fair scheduling every call that has started returns, with a valid
\* triple every call returns Ok, and the value ends unlocked with every thread
\* back at its caller. No interleaving deadlocks.
C18_NonBlocking ==
    /\ []C18_State
    /\ [][C18_Step]_vars
    /\ \A t \in 1..RaceThreads : (pc[t] # "idle") ~> (pc[t] = "idle")
    /\ <>[](Valid => (AllIdle /\ is_decrypted(decrypted) /\ lastRet = Ok(text)))

\* C18 witness: with a valid triple every thread ran its own decrypt before any
\* of them stored a result, and all calls have returned Ok
C18_Witness ==
    /\ Valid
    /\ decryptCalls = RaceThreads
    /\ setWins = 1
    /\ AllIdle
    /\ is_decrypted(decrypted)
    /\ lastRet = Ok(text)

\* a thread that has made its set finds the cache populated; no call returned
\* the panic; zeroize and drop cannot run while an accessor is in progress
C19_State ==
    /\ \A t \in Threads : pc[t] = "get" => OnceLock_get(decrypted).some
    /\ lastRet.kind # "Panic"
    /\ (\E t \in Threads : pc[t] # "idle") => ~ENABLED Zeroize /\ ~ENABLED Drop

\* no step empties a populated cache, and the cache is populated after every set
C19_Step ==
    /\ OnceLock_get(decrypted).some => OnceLock_get(decrypted').some
    /\ \A t \in Threads :
          (pc[t] = "set" /\ pc'[t] = "get") => OnceLock_get(decrypted').some

\* C19: the expect("just set") of try_as_bytes never fails. In every
\* interleaving of the accessors, with zeroize and drop in between calls, a
\* thread that has made its set (stored or not) finds the cache populated at the
\* get that follows; no call returns the panic; and no step empties a populated
\* cache: zeroize and drop run only while no accessor is in progress and leave
\* the cell populated.
C19_JustSet == []C19_State /\ [][C19_Step]_vars

\* C19 witness: two threads ran decrypt, one set stored its value, the other set
\* lost the race, and both calls returned Ok
C19_Witness ==
    /\ Valid
    /\ scrub = "none"
    /\ alive
    /\ decryptCalls = 2
    /\ setWins = 1
    /\ AllIdle
    /\ lastRet = Ok(text)
    /\ OnceLock_get(decrypted) = Some(text)

====
